---- MODULE Spec2Model ----
(***************************************************************************)
(* Model of the hips package: the tile fetcher (hips/tiles/fetch.py, class *)
(* HipsTileFetcher with its thread-pool property `tiles` and its           *)
(* cooperative property `tiles_aiohttp`) and the HEALPix to HiPS converter *)
(* (hips/draw/healpix.py).                                                 *)
(***************************************************************************)
EXTENDS Integers, Sequences, FiniteSets, Bags, TLC

\* ------------------------------------------------------------------ bounds
MaxTiles == 2      \* longest tile_indices list
MaxIdx == 3        \* the extractor is called with tile_idx in 0..MaxIdx
MaxK == 3          \* full-sky arrays of order 0..MaxK are recognised

\* ------------------------------------------------------- fetcher constants
HipsOrder == 7
TileFormat == "fits"
AstropyFrame == "icrs"
BaseUrl == "http://alasky.unistra.fr/DSS/DSS2Merged"
\* concurrent.futures.thread of CPython comes in three forms: up to 3.7
\* ("3.7") the executor has no idle semaphore and submit starts a thread
\* while fewer than max_workers exist; from 3.8 to 3.11 ("3.8") a worker
\* releases the idle semaphore after every work item; from 3.12 on ("3.12")
\* only when it finds the queue empty
PyVersions == {"3.7", "3.8", "3.12"}

\* the tile indices a fetcher is built with are drawn from these
TileIndices == {0, 1}
\* and its thread_count from these: with lists of up to MaxTiles indices
\* there are batches of fewer, as many and more fetches than workers
ThreadCounts == {1, 2}

\* the bodies the server holds for the tiles 0, 1, 2, ...
Bodies == <<"A", "B", "C", "D">>
\* the body of its reply for a tile it does not have (a non-2xx status)
ErrorPage == "E"
\* the server has every tile, or all but tile 1
MissingSets == {{}, {1}}
NoData == ""

VARIABLES
    \* HipsTileFetcher attributes
    tile_indices, progress_bar, thread_count,
    \* the caller: which property is being evaluated, and the results it
    \* holds: that of the latest `tiles`, and that of a `tiles_aiohttp`
    \* evaluated after it (the order of test_tiles and test_tiles_aiohttp)
    pc, strategy, out,
    \* locals of tiles / fetch_tiles_aiohttp
    tile_urls, tile_metas, fut, raw_responses, exc, bar,
    \* the release of the standard library the fetcher runs on, and the tile
    \* indices for which the server has no tile
    pyver, missing,
    \* ThreadPoolExecutor: its work queue, the worker threads started and
    \* left, the value of its idle semaphore, the workers about to poll the
    \* queue and those about to release the semaphore
    work_queue, threads, exited, shutdown, idle_sem, polling, releasing,
    \* the None that shutdown puts at the end of the work queue: whether it
    \* is on the queue, the workers that have taken it off and not yet put
    \* it back, and those that have put it back and not yet returned
    sentinel, leaving, returning,
    \* as_completed
    waiting, finished, done_order, taken

fetchVars == <<tile_indices, progress_bar, thread_count, pyver, missing,
               pc, strategy, out,
               tile_urls, tile_metas, fut, raw_responses, exc, bar,
               work_queue, threads, exited, shutdown, idle_sem, polling, releasing,
               sentinel, leaving, returning,
               waiting, finished, done_order, taken>>

VARIABLES
    \* arguments of healpix_to_hips: hpx_shape is hpx_data.shape
    hpx_shape, tile_width, file_format, frame,
    \* position in healpix_to_hips and its locals
    cpc, n_tiles, tile_idx, tile,
    \* the file system under base_path, and the order of the operations on it
    dirs, files, fslog

convVars == <<hpx_shape, tile_width, file_format, frame,
              cpc, n_tiles, tile_idx, tile, dirs, files, fslog>>

vars == <<fetchVars, convVars>>

\* ----------------------------------------------------------- collaborators
Range(s) == {s[i] : i \in DOMAIN s}

\* Sequences over S of length 0..n
SeqUpTo(S, n) == UNION {[1..m -> S] : m \in 0..n}

HipsTileMeta(order, ipix, frm, fmt) ==
    [order |-> order, ipix |-> ipix, frame |-> frm, file_format |-> fmt]

HipsTile(meta, raw_data) == [meta |-> meta, raw_data |-> raw_data]

\* hips_survey.tile_url(tile_meta): the address of one tile
TileUrl(meta) ==
    [base |-> BaseUrl, order |-> meta.order, ipix |-> meta.ipix, ext |-> meta.file_format]

Digits == <<"0", "1", "2", "3", "4", "5", "6", "7", "8", "9">>

\* variant: the position idx is substituted for the pixel index of the URL
UrlFormatIdx(url, idx) == [url EXCEPT !.ipix = idx]

\* str.format(idx): a replacement field "{}" becomes the text of idx;
\* text without a replacement field is left as it is
UrlFormat(url, idx) ==
    [url EXCEPT !.base = IF @ = "{}" THEN Digits[idx + 1] ELSE @]

\* the body the server sends for a URL
ServerHas(url) == url.ipix \notin missing

ServerPayload(url) == IF ServerHas(url) THEN Bodies[url.ipix + 1] ELSE ErrorPage

\* a future / task: state is "pending", "running" or "finished"
NewFuture(url) == [state |-> "pending", url |-> url, ok |-> TRUE, data |-> NoData]

\* fetch_tile_threaded, lines 41-44: urlopen raises when the connection
\* fails or times out (net is FALSE) and when the reply has a non-2xx
\* status; otherwise the full body is read and returned
FetchResult(f, net) ==
    [f EXCEPT !.state = "finished", !.ok = net /\ ServerHas(f.url),
              !.data = IF net /\ ServerHas(f.url) THEN ServerPayload(f.url) ELSE NoData]

\* fetch_tile_threaded_aiohttp, lines 78-81: session.get raises when the
\* connection fails or times out; the status of the reply is not looked at,
\* the body of any reply is read and returned
FetchResultAiohttp(f, net) ==
    [f EXCEPT !.state = "finished", !.ok = net,
              !.data = IF net THEN ServerPayload(f.url) ELSE NoData]

\* lines 49-58 / 87-96: one meta and one URL per requested index
BuildMetas(indices) ==
    [k \in DOMAIN indices |->
        HipsTileMeta(HipsOrder, indices[k], AstropyFrame, TileFormat)]

BuildUrls(metas) == [k \in DOMAIN metas |-> TileUrl(metas[k])]

\* variant: the metas are attached from the end of the list
BuildTilesReversed(metas, raw) ==
    [idx \in DOMAIN raw |-> HipsTile(metas[Len(metas) - idx + 1], raw[idx])]

\* lines 73-75 / 112-114: metas are attached by position in raw_responses
BuildTiles(metas, raw) == [idx \in DOMAIN raw |-> HipsTile(metas[idx], raw[idx])]

NoResult == [kind |-> "none", tiles |-> <<>>]
Raised == [kind |-> "raised", tiles |-> <<>>]
Returned(tiles) == [kind |-> "list", tiles |-> tiles]

\* ------------------------------------------------------------------- Init
InitFetch ==
    /\ tile_indices \in SeqUpTo(TileIndices, MaxTiles)
    /\ progress_bar \in BOOLEAN
    /\ thread_count \in ThreadCounts
    /\ pyver \in PyVersions
    /\ missing \in MissingSets
    /\ pc = "idle"
    /\ strategy = "none"
    /\ out = [tiles |-> NoResult, tiles_aiohttp |-> NoResult]
    /\ tile_urls = <<>>
    /\ tile_metas = <<>>
    /\ fut = <<>>
    /\ raw_responses = <<>>
    /\ exc = FALSE
    /\ bar = 0
    /\ work_queue = <<>>
    /\ threads = 0
    /\ exited = 0
    /\ shutdown = FALSE
    /\ idle_sem = 0
    /\ polling = 0
    /\ releasing = 0
    /\ sentinel = FALSE
    /\ leaving = 0
    /\ returning = 0
    /\ waiting = FALSE
    /\ finished = {}
    /\ done_order = <<>>
    /\ taken = 0

config == <<tile_indices, progress_bar, thread_count, pyver, missing>>

\* ------------------------------------------------ entering a property call
\* tiles lines 49-61, fetch_tiles_aiohttp lines 87-99; every local is built
\* anew. The caller drops the result it held of the property it evaluates,
\* and with an evaluation of `tiles` it starts afresh
Call(s) ==
    /\ pc = "idle"
    /\ strategy' = s
    /\ tile_metas' = BuildMetas(tile_indices)
    /\ tile_urls' = BuildUrls(BuildMetas(tile_indices))
    /\ fut' = <<>>
    /\ raw_responses' = <<>>
    /\ exc' = FALSE
    /\ bar' = 0
    /\ work_queue' = <<>>
    /\ threads' = 0
    /\ exited' = 0
    /\ shutdown' = FALSE
    /\ idle_sem' = 0
    /\ polling' = 0
    /\ releasing' = 0
    /\ sentinel' = FALSE
    /\ leaving' = 0
    /\ returning' = 0
    /\ waiting' = FALSE
    /\ finished' = {}
    /\ done_order' = <<>>
    /\ taken' = 0
    /\ out' = IF s = "tiles"
                 THEN [tiles |-> NoResult, tiles_aiohttp |-> NoResult]
                 ELSE [out EXCEPT ![s] = NoResult]
    /\ pc' = IF s = "tiles" THEN "submit" ELSE "schedule"
    /\ UNCHANGED config

\* ------------------------------------------------ thread-pool strategy
\* the worker threads are alike: threads counts those started and exited
\* those that have left. A worker holds a future from the moment it has
\* taken the work item off the queue (the future is still pending) and runs
\* it once _WorkItem.run has set it running
Running(fs) == {k \in DOMAIN fs : fs[k].state = "running"}

Held(fs, q) == {k \in DOMAIN fs : fs[k].state = "pending" /\ k \notin Range(q)}

\* the workers blocked in work_queue.get(block=True)
Idle == threads - exited - Cardinality(Held(fut, work_queue))
            - Cardinality(Running(fut)) - polling - releasing
            - leaving - returning

\* variant: a worker thread per submit, whatever max_workers is
AdjustUnbounded(n, max_workers, idle) == n + 1

\* ThreadPoolExecutor._adjust_thread_count: no thread is started when the
\* idle semaphore can be acquired; otherwise one is started while fewer
\* than max_workers threads exist
AdjustThreadCount(n, max_workers, idle) ==
    IF idle > 0 THEN n
    ELSE IF n < max_workers THEN n + 1 ELSE n

\* what _adjust_thread_count can acquire: up to 3.7 there is no semaphore
Acquirable == IF pyver = "3.7" THEN 0 ELSE idle_sem

\* line 62: executor.submit(self.fetch_tile_threaded, url), one url at a
\* time: the work item is put on the queue
Submit ==
    /\ pc = "submit"
    /\ Len(fut) < Len(tile_urls)
    /\ fut' = Append(fut, NewFuture(tile_urls[Len(fut) + 1]))
    /\ work_queue' = Append(work_queue, Len(fut) + 1)
    /\ pc' = "adjust"
    /\ UNCHANGED <<config, strategy, out, tile_urls, tile_metas,
                   raw_responses, exc, bar, threads, exited, shutdown,
                   idle_sem, polling, releasing, sentinel, leaving, returning,
                   waiting, finished, done_order, taken>>

\* line 62, the end of executor.submit: _adjust_thread_count(); a worker
\* started on 3.12 polls the queue first, before that it blocks on it
AdjustThreads ==
    /\ pc = "adjust"
    /\ threads' = AdjustThreadCount(threads, thread_count, Acquirable)
    /\ idle_sem' = IF Acquirable > 0 THEN idle_sem - 1 ELSE idle_sem
    /\ polling' = IF pyver = "3.12"
                     THEN polling + (AdjustThreadCount(threads, thread_count, Acquirable) - threads)
                     ELSE polling
    /\ pc' = "submit"
    /\ UNCHANGED <<config, strategy, out, tile_urls, tile_metas, fut,
                   raw_responses, exc, bar, work_queue, exited, shutdown,
                   releasing, sentinel, leaving, returning, waiting, finished,
                   done_order, taken>>

\* lines 63-67: as_completed(future_to_url) starts: the futures finished so
\* far form its first batch, the others are waited for and recorded in
\* done_order as they complete, for as long as the generator lives (waiting)
AsCompleted ==
    /\ pc = "submit"
    /\ Len(fut) = Len(tile_urls)
    /\ finished' = {k \in DOMAIN fut : fut[k].state = "finished"}
    /\ waiting' = TRUE
    /\ pc' = "collect"
    /\ UNCHANGED <<config, strategy, out, tile_urls, tile_metas, fut,
                   raw_responses, exc, bar, work_queue, threads, exited,
                   shutdown, done_order, taken, idle_sem, polling, releasing,
                   sentinel, leaving, returning>>

\* variant: once the executor is shut down after a failure, queued work
\* items are cancelled instead of handed to a worker
WorkerTakeCancelling ==
    /\ strategy = "tiles"
    /\ Idle > 0
    /\ work_queue # <<>>
    /\ work_queue' = Tail(work_queue)
    /\ fut' = [fut EXCEPT ![Head(work_queue)].state =
                  IF shutdown /\ exc THEN "cancelled" ELSE @]
    /\ UNCHANGED <<config, pc, strategy, out, tile_urls, tile_metas,
                   raw_responses, exc, bar, threads, exited, shutdown, waiting,
                   finished, done_order, taken, idle_sem, polling, releasing,
                   sentinel, leaving, returning>>

\* work_queue.get(block=True) of a blocked worker returns the oldest work
\* item; its future stays pending until the worker runs it
WorkerTake ==
    /\ strategy = "tiles"
    /\ Idle > 0
    /\ work_queue # <<>>
    /\ work_queue' = Tail(work_queue)
    /\ UNCHANGED <<config, pc, strategy, out, tile_urls, tile_metas, fut,
                   raw_responses, exc, bar, threads, exited, shutdown, waiting,
                   finished, done_order, taken, idle_sem, polling, releasing,
                   sentinel, leaving, returning>>

\* _WorkItem.run: set_running_or_notify_cancel() on the future the worker
\* holds, then line 42-43: the request is sent
WorkerRun(k) ==
    /\ strategy = "tiles"
    /\ k \in Held(fut, work_queue)
    /\ fut' = [fut EXCEPT ![k].state = "running"]
    /\ UNCHANGED <<config, pc, strategy, out, tile_urls, tile_metas,
                   raw_responses, exc, bar, work_queue, threads, exited,
                   shutdown, waiting, finished, done_order, taken, idle_sem,
                   polling, releasing, sentinel, leaving, returning>>

\* variant: the worker itself appends the body to raw_responses
WorkerFinishAppends(k, net) ==
    /\ strategy = "tiles"
    /\ k \in Running(fut)
    /\ fut' = [fut EXCEPT ![k] = FetchResult(@, net)]
    /\ done_order' = IF waiting THEN Append(done_order, k) ELSE done_order
    /\ releasing' = IF pyver = "3.8" THEN releasing + 1 ELSE releasing
    /\ polling' = IF pyver = "3.12" THEN polling + 1 ELSE polling
    /\ raw_responses' = IF FetchResult(fut[k], net).ok
                           THEN Append(raw_responses, ServerPayload(fut[k].url))
                           ELSE raw_responses
    /\ UNCHANGED <<config, pc, strategy, out, tile_urls, tile_metas,
                   exc, bar, work_queue, threads, exited, shutdown, waiting,
                   finished, taken, idle_sem, sentinel, leaving, returning>>

\* lines 41-44: the fetch of future k, run by a worker, returns the body or
\* raises; the future is completed and a living as_completed is notified.
\* The worker goes on to block on the queue (up to 3.7), to release the
\* idle semaphore (3.8 to 3.11) or to poll the queue (from 3.12 on)
WorkerFinish(k, net) ==
    /\ strategy = "tiles"
    /\ k \in Running(fut)
    /\ fut' = [fut EXCEPT ![k] = FetchResult(@, net)]
    /\ done_order' = IF waiting THEN Append(done_order, k) ELSE done_order
    /\ releasing' = IF pyver = "3.8" THEN releasing + 1 ELSE releasing
    /\ polling' = IF pyver = "3.12" THEN polling + 1 ELSE polling
    /\ UNCHANGED <<config, pc, strategy, out, tile_urls, tile_metas,
                   raw_responses, exc, bar, work_queue, threads, exited,
                   shutdown, waiting, finished, taken, idle_sem, sentinel,
                   leaving, returning>>

\* executor._idle_semaphore.release(), after which the worker blocks on the
\* queue
WorkerRelease ==
    /\ strategy = "tiles"
    /\ releasing > 0
    /\ releasing' = releasing - 1
    /\ idle_sem' = idle_sem + 1
    /\ UNCHANGED <<config, pc, strategy, out, tile_urls, tile_metas, fut,
                   raw_responses, exc, bar, work_queue, threads, exited,
                   shutdown, waiting, finished, done_order, taken, polling,
                   sentinel, leaving, returning>>

\* from 3.12 on, work_queue.get_nowait() of a worker: the oldest work item,
\* or the None of shutdown if it is on the queue, or queue.Empty, on which
\* the worker goes on to release the idle semaphore and to block
WorkerPoll ==
    /\ strategy = "tiles"
    /\ polling > 0
    /\ polling' = polling - 1
    /\ IF work_queue # <<>>
          THEN /\ work_queue' = Tail(work_queue)
               /\ UNCHANGED <<sentinel, leaving, releasing>>
          ELSE IF sentinel
                  THEN /\ sentinel' = FALSE
                       /\ leaving' = leaving + 1
                       /\ UNCHANGED <<work_queue, releasing>>
                  ELSE /\ releasing' = releasing + 1
                       /\ UNCHANGED <<work_queue, sentinel, leaving>>
    /\ UNCHANGED <<config, pc, strategy, out, tile_urls, tile_metas, fut,
                   raw_responses, exc, bar, threads, exited, shutdown, waiting,
                   finished, done_order, taken, idle_sem, returning>>

\* work_queue.get(block=True) of a blocked worker returns the None of
\* shutdown, which is behind every work item
WorkerTakeNone ==
    /\ strategy = "tiles"
    /\ Idle > 0
    /\ work_queue = <<>>
    /\ sentinel
    /\ sentinel' = FALSE
    /\ leaving' = leaving + 1
    /\ UNCHANGED <<config, pc, strategy, out, tile_urls, tile_metas, fut,
                   raw_responses, exc, bar, work_queue, threads, exited,
                   shutdown, waiting, finished, done_order, taken, idle_sem,
                   polling, releasing, returning>>

\* variant: a worker that has taken the None returns without putting it back
WorkerDropNone ==
    /\ strategy = "tiles"
    /\ leaving > 0
    /\ leaving' = leaving - 1
    /\ returning' = returning + 1
    /\ UNCHANGED <<config, pc, strategy, out, tile_urls, tile_metas, fut,
                   raw_responses, exc, bar, work_queue, threads, exited,
                   shutdown, waiting, finished, done_order, taken, idle_sem,
                   polling, releasing, sentinel>>

\* a worker that has taken the None finds the executor shut down and puts
\* the None back for the other workers: work_queue.put(None)
WorkerPutNone ==
    /\ strategy = "tiles"
    /\ leaving > 0
    /\ shutdown
    /\ leaving' = leaving - 1
    /\ returning' = returning + 1
    /\ sentinel' = TRUE
    /\ UNCHANGED <<config, pc, strategy, out, tile_urls, tile_metas, fut,
                   raw_responses, exc, bar, work_queue, threads, exited,
                   shutdown, waiting, finished, done_order, taken, idle_sem,
                   polling, releasing>>

\* the worker returns from _worker and its thread ends
WorkerExit ==
    /\ strategy = "tiles"
    /\ returning > 0
    /\ returning' = returning - 1
    /\ exited' = exited + 1
    /\ UNCHANGED <<config, pc, strategy, out, tile_urls, tile_metas, fut,
                   raw_responses, exc, bar, work_queue, threads, shutdown,
                   waiting, finished, done_order, taken, idle_sem, polling,
                   releasing, sentinel, leaving>>

\* variant: the exception of a failed future is not raised
CollectSwallow(k) ==
    /\ bar' = IF progress_bar THEN bar + 1 ELSE bar
    /\ raw_responses' = Append(raw_responses, fut[k].data)
    /\ UNCHANGED <<pc, exc, shutdown, sentinel, waiting>>

\* lines 69-71 for the future k that as_completed yields: its result is
\* appended and the progress bar, if any, counts the item; or its exception
\* leaves the loop and the with block, the item is not counted, the
\* as_completed generator is left suspended, and executor.__exit__ calls
\* shutdown(wait=True): the executor is flagged and a None is put on the
\* queue, behind the work items
Collect(k) ==
    IF fut[k].ok
       THEN /\ raw_responses' = Append(raw_responses, fut[k].data)
            /\ bar' = IF progress_bar THEN bar + 1 ELSE bar
            /\ UNCHANGED <<pc, exc, shutdown, sentinel, waiting>>
       ELSE /\ exc' = TRUE
            /\ shutdown' = TRUE
            /\ sentinel' = TRUE
            /\ pc' = "shutdown"
            /\ UNCHANGED <<raw_responses, bar, waiting>>

\* as_completed yields the futures of its first batch, in no particular order
YieldFinished ==
    /\ pc = "collect"
    /\ \E k \in finished :
          /\ finished' = finished \ {k}
          /\ Collect(k)
    /\ UNCHANGED <<config, strategy, out, tile_urls, tile_metas, fut,
                   work_queue, threads, exited, done_order, taken, idle_sem,
                   polling, releasing, leaving, returning>>

\* then the others, in the order in which they complete
YieldWaited ==
    /\ pc = "collect"
    /\ finished = {}
    /\ taken < Len(done_order)
    /\ taken' = taken + 1
    /\ Collect(done_order[taken + 1])
    /\ UNCHANGED <<config, strategy, out, tile_urls, tile_metas, fut,
                   work_queue, threads, exited, finished, done_order, idle_sem,
                   polling, releasing, leaving, returning>>

\* the for loop of line 69 ends: the with block is left, shutdown(wait=True)
\* flags the executor and puts a None on the queue
CollectDone ==
    /\ pc = "collect"
    /\ Len(raw_responses) = Len(fut)
    /\ shutdown' = TRUE
    /\ sentinel' = TRUE
    /\ waiting' = FALSE
    /\ pc' = "shutdown"
    /\ UNCHANGED <<config, strategy, out, tile_urls, tile_metas, fut,
                   raw_responses, exc, bar, work_queue, threads, exited,
                   finished, done_order, taken, idle_sem, polling, releasing,
                   leaving, returning>>

\* variant: shutdown(wait=False)
NotJoined(started, left) == TRUE

\* shutdown(wait=True) joins every worker thread
AllJoined(started, left) == left = started

\* executor.__exit__ returns, then lines 73-76 or the pending exception
TilesReturn ==
    /\ pc = "shutdown"
    /\ AllJoined(threads, exited)
    /\ out' = [out EXCEPT !.tiles =
                  IF exc THEN Raised
                  ELSE Returned(BuildTiles(tile_metas, raw_responses))]
    /\ pc' = "idle"
    /\ UNCHANGED <<config, strategy, tile_urls, tile_metas, fut,
                   raw_responses, exc, bar, work_queue, threads, exited, shutdown,
                   waiting, finished, done_order, taken, idle_sem, polling, releasing,
                   sentinel, leaving, returning>>

\* ------------------------------------------------ cooperative strategy
\* lines 100-102: ensure_future(fetch_tile_threaded_aiohttp(url.format(idx), session));
\* the task is scheduled and runs only once the caller awaits
Schedule ==
    /\ pc = "schedule"
    /\ Len(fut) < Len(tile_urls)
    /\ fut' = Append(fut, NewFuture(UrlFormat(tile_urls[Len(fut) + 1], Len(fut))))
    /\ UNCHANGED <<config, pc, strategy, out, tile_urls, tile_metas,
                   raw_responses, exc, bar, work_queue, threads, exited, shutdown,
                   waiting, finished, done_order, taken, idle_sem, polling, releasing,
                   sentinel, leaving, returning>>

\* lines 104-110: the caller reaches its first await: as_completed records
\* the completions in done_order, gather does not
Await ==
    /\ pc = "schedule"
    /\ Len(fut) = Len(tile_urls)
    /\ waiting' = progress_bar
    /\ pc' = "await"
    /\ UNCHANGED <<config, strategy, out, tile_urls, tile_metas, fut,
                   raw_responses, exc, bar, work_queue, threads, exited, shutdown,
                   finished, done_order, taken, idle_sem, polling, releasing,
                   sentinel, leaving, returning>>

\* variant: a task starts only while fewer than thread_count are in flight
TaskStartCapped(k) ==
    /\ pc = "await"
    /\ k \in DOMAIN fut
    /\ fut[k].state = "pending"
    /\ \A j \in 1..(k - 1) : fut[j].state # "pending"
    /\ Cardinality(Running(fut)) < thread_count
    /\ fut' = [fut EXCEPT ![k].state = "running"]
    /\ UNCHANGED <<config, pc, strategy, out, tile_urls, tile_metas,
                   raw_responses, exc, bar, work_queue, threads, exited, shutdown,
                   waiting, finished, done_order, taken, idle_sem, polling, releasing,
                   sentinel, leaving, returning>>

\* line 80: the event loop starts the tasks in the order they were scheduled;
\* each one runs up to session.get and is then in flight
TaskStart(k) ==
    /\ pc = "await"
    /\ k \in DOMAIN fut
    /\ fut[k].state = "pending"
    /\ \A j \in 1..(k - 1) : fut[j].state # "pending"
    /\ fut' = [fut EXCEPT ![k].state = "running"]
    /\ UNCHANGED <<config, pc, strategy, out, tile_urls, tile_metas,
                   raw_responses, exc, bar, work_queue, threads, exited, shutdown,
                   waiting, finished, done_order, taken, idle_sem, polling, releasing,
                   sentinel, leaving, returning>>

\* lines 80-81: the reply to a task in flight is read, or the request fails
TaskFinish(k, ok) ==
    /\ pc = "await"
    /\ k \in DOMAIN fut
    /\ fut[k].state = "running"
    /\ fut' = [fut EXCEPT ![k] = FetchResultAiohttp(@, ok)]
    /\ done_order' = IF waiting THEN Append(done_order, k) ELSE done_order
    /\ UNCHANGED <<config, pc, strategy, out, tile_urls, tile_metas,
                   raw_responses, exc, bar, work_queue, threads, exited, shutdown,
                   waiting, finished, taken, idle_sem, polling, releasing,
                   sentinel, leaving, returning>>

\* lines 107-108: await the next task to complete; its result is appended
\* and the progress bar counts the item, or its exception leaves
\* fetch_tiles_aiohttp and the item is not counted
AioNext ==
    /\ pc = "await"
    /\ progress_bar
    /\ taken < Len(done_order)
    /\ taken' = taken + 1
    /\ IF fut[done_order[taken + 1]].ok
          THEN /\ raw_responses' = Append(raw_responses, fut[done_order[taken + 1]].data)
               /\ bar' = bar + 1
               /\ UNCHANGED <<pc, exc, out>>
          ELSE /\ exc' = TRUE
               /\ out' = [out EXCEPT !.tiles_aiohttp = Raised]
               /\ pc' = "idle"
               /\ UNCHANGED <<raw_responses, bar>>
    /\ UNCHANGED <<config, strategy, tile_urls, tile_metas, fut,
                   work_queue, threads, exited, shutdown, waiting, finished, done_order, idle_sem, polling, releasing,
                   sentinel, leaving, returning>>

\* asyncio.gather(*tasks): the results of the tasks, in the order of the tasks
GatherResults(fs) == [k \in DOMAIN fs |-> fs[k].data]

\* line 110: gather returns when every task is done, and raises as soon as
\* one task has failed
Gather ==
    /\ pc = "await"
    /\ ~progress_bar
    /\ IF \E k \in DOMAIN fut : fut[k].state = "finished" /\ ~fut[k].ok
          THEN /\ exc' = TRUE
               /\ out' = [out EXCEPT !.tiles_aiohttp = Raised]
               /\ pc' = "idle"
               /\ UNCHANGED raw_responses
          ELSE /\ \A k \in DOMAIN fut : fut[k].state = "finished"
               /\ raw_responses' = GatherResults(fut)
               /\ pc' = "assemble"
               /\ UNCHANGED <<exc, out>>
    /\ UNCHANGED <<config, strategy, tile_urls, tile_metas, fut, bar,
                   work_queue, threads, exited, shutdown, waiting, finished,
                   done_order, taken, idle_sem, polling, releasing,
                   sentinel, leaving, returning>>

\* the for loop of line 107 ends after len(tasks) results
AioDone ==
    /\ pc = "await"
    /\ progress_bar
    /\ Len(raw_responses) = Len(fut)
    /\ pc' = "assemble"
    /\ UNCHANGED <<config, strategy, out, tile_urls, tile_metas, fut,
                   raw_responses, exc, bar, work_queue, threads, exited, shutdown,
                   waiting, finished, done_order, taken, idle_sem, polling, releasing,
                   sentinel, leaving, returning>>

\* lines 112-115 and 120: the tiles are built and run_until_complete returns
AioReturn ==
    /\ pc = "assemble"
    /\ out' = [out EXCEPT !.tiles_aiohttp =
                  Returned(BuildTiles(tile_metas, raw_responses))]
    /\ pc' = "idle"
    /\ UNCHANGED <<config, strategy, tile_urls, tile_metas, fut,
                   raw_responses, exc, bar, work_queue, threads, exited, shutdown,
                   waiting, finished, done_order, taken, idle_sem, polling, releasing,
                   sentinel, leaving, returning>>

NextFetch ==
    \/ \E s \in {"tiles", "tiles_aiohttp"} : Call(s)
    \/ Submit
    \/ AdjustThreads
    \/ AsCompleted
    \/ WorkerTake
    \/ \E k \in DOMAIN fut : WorkerRun(k)
    \/ \E k \in DOMAIN fut, ok \in BOOLEAN : WorkerFinish(k, ok)
    \/ WorkerRelease
    \/ WorkerPoll
    \/ WorkerTakeNone
    \/ WorkerPutNone
    \/ WorkerExit
    \/ YieldFinished
    \/ YieldWaited
    \/ CollectDone
    \/ TilesReturn
    \/ Schedule
    \/ Await
    \/ \E k \in DOMAIN fut : TaskStart(k)
    \/ \E k \in DOMAIN fut, ok \in BOOLEAN : TaskFinish(k, ok)
    \/ AioNext
    \/ Gather
    \/ AioDone
    \/ AioReturn

\* ------------------------------------------------------------ converter
\* inputs of the converter
NpixValues == {0, 12, 14, 48, 50, 192, 768}
TileWidths == {2, 4}
FileFormats == {"fits", "jpg", "png", "gif"}
Frames == {"icrs", "galactic"}
HpxShapes == UNION {{<<n>>, <<n, 3>>, <<n, 4>>, <<n, 3, 1>>} : n \in NpixValues}

RECURSIVE ILog2(_)
\* int(np.log2(n)) for n >= 1
ILog2(n) == IF n < 2 THEN 0 ELSE 1 + ILog2(n \div 2)

RECURSIVE ISqrtFrom(_, _)
ISqrtFrom(n, r) == IF (r + 1) * (r + 1) > n THEN r ELSE ISqrtFrom(n, r + 1)
ISqrt(n) == ISqrtFrom(n, 0)

\* variant: the side is the root of the quotient itself, the twelve base
\* pixels are not divided out
Npix2NsideOfQuotient(npix, tw) == ISqrt(npix \div (tw * tw))

\* hp.npix2nside(npix / tile_width ** 2): the quotient is taken as an integer;
\* the result is -1 where the call raises ValueError (not 12 * nside ** 2)
Npix2Nside(npix, tw) ==
    LET q == npix \div (tw * tw)
    IN  IF q % 12 = 0 /\ ISqrt(q \div 12) * ISqrt(q \div 12) = q \div 12 /\ q > 0
           THEN ISqrt(q \div 12)
           ELSE -1

\* variant: jpg takes every array of rank 2, whatever its trailing dimension
ShapeValidLoose(shape, fmt) ==
    CASE fmt = "fits" -> Len(shape) = 1
      [] fmt = "jpg" -> Len(shape) = 2
      [] fmt = "png" -> Len(shape) = 2 /\ shape[2] = 4
      [] OTHER -> FALSE

\* lines 47-70: the shape the file format requires
ShapeValid(shape, fmt) ==
    CASE fmt = "fits" -> Len(shape) = 1
      [] fmt = "jpg" -> Len(shape) = 2 /\ shape[2] = 3
      [] fmt = "png" -> Len(shape) = 2 /\ shape[2] = 4
      [] OTHER -> FALSE

\* lines 48-70: the error the validation of shape and format raises, "" if none
ValidationError(shape, fmt) ==
    IF fmt \notin {"fits", "jpg", "png"} THEN "ValueError: Invalid file_format"
    ELSE IF ShapeValid(shape, fmt) THEN ""
    ELSE IF fmt = "fits" THEN "ValueError: Invalid hpx_data.ndim"
    ELSE "ValueError: Invalid hpx_data.shape"

NoMeta == [order |-> 0, ipix |-> 0, file_format |-> "", frame |-> "", width |-> 0]

\* a call of the extractor that raises
Failure(error) == [ok |-> FALSE, error |-> error, meta |-> NoMeta, data |-> <<>>]

NoTile == [ok |-> FALSE, error |-> "", meta |-> NoMeta, data |-> <<>>]

RECURSIVE Pow2(_)
Pow2(n) == IF n = 0 THEN 1 ELSE 2 * Pow2(n - 1)

RECURSIVE HipsTileHealpixIpixArray(_)
\* hips_tile_healpix_ipix_array(shift_order): the nested pixel offset of every
\* cell of a tile of width 2 ** shift_order, as rows of cells
HipsTileHealpixIpixArray(shift_order) ==
    IF shift_order = 0 THEN << <<0>> >>
    ELSE LET half == Pow2(shift_order - 1)
             sub == HipsTileHealpixIpixArray(shift_order - 1)
         IN  [r \in 1..(2 * half) |-> [c \in 1..(2 * half) |->
                 sub[((r - 1) % half) + 1][((c - 1) % half) + 1]
                   + half * half * (2 * ((r - 1) \div half) + ((c - 1) \div half))]]

\* variant: the offset of a tile is taken per row, not per cell
OffsetIpixPerRow(idx, tw) == idx * tw

\* line 44: offset_ipix = tile_idx * tile_width ** 2
OffsetIpix(idx, tw) == idx * tw * tw

\* lines 41-45: ipix = hpx_ipix + offset_ipix
GatherIpix(tw, idx) ==
    LET hpx_ipix == HipsTileHealpixIpixArray(ILog2(tw))
    IN  [r \in DOMAIN hpx_ipix |-> [c \in DOMAIN hpx_ipix[r] |->
            hpx_ipix[r][c] + OffsetIpix(idx, tw)]]

\* the cells of an array of rows
Cells(m) == {m[r][c] : r \in DOMAIN m, c \in DOMAIN m}

\* lines 54, 61, 68: hpx_data[ipix] raises IndexError unless every index of
\* ipix is within hpx_data
GatherInBounds(npix, tw, idx) == \A i \in Cells(GatherIpix(tw, idx)) : i < npix

\* line 74: np.rot90(data), a quarter turn counterclockwise
Rot90(m) == [i \in DOMAIN m |-> [j \in DOMAIN m |-> m[j][Len(m) - i + 1]]]

\* variant: the shape and the format are validated for every tile but the
\* first
HealpixToHipsTileLate(shape, tw, idx, fmt, frm) ==
    IF idx > 0 /\ ValidationError(shape, fmt) # "" THEN Failure(ValidationError(shape, fmt))
    ELSE IF ~GatherInBounds(shape[1], tw, idx) THEN Failure("IndexError")
    ELSE IF Npix2Nside(shape[1], tw) < 0 THEN Failure("ValueError: npix2nside")
    ELSE [ok |-> TRUE, error |-> "",
          meta |-> [order |-> ILog2(Npix2Nside(shape[1], tw)), ipix |-> idx,
                    file_format |-> fmt, frame |-> frm, width |-> tw],
          data |-> Rot90(GatherIpix(tw, idx))]

\* healpix_to_hips_tile, lines 41-88: the tile, or a failure where it raises;
\* a cell of data holds the index of the pixel of hpx_data it is copied from
HealpixToHipsTile(shape, tw, idx, fmt, frm) ==
    IF ValidationError(shape, fmt) # "" THEN Failure(ValidationError(shape, fmt))
    ELSE IF ~GatherInBounds(shape[1], tw, idx) THEN Failure("IndexError")
    ELSE IF Npix2Nside(shape[1], tw) < 0 THEN Failure("ValueError: npix2nside")
    ELSE [ok |-> TRUE, error |-> "",
          meta |-> [order |-> ILog2(Npix2Nside(shape[1], tw)), ipix |-> idx,
                    file_format |-> fmt, frame |-> frm, width |-> tw],
          data |-> Rot90(GatherIpix(tw, idx))]

\* HipsTileMeta.tile_default_path
TileDefaultPath(meta) ==
    [norder |-> meta.order, dir |-> (meta.ipix \div 10000) * 10000,
     npix |-> meta.ipix, ext |-> meta.file_format]

\* paths below base_path: base_path itself, base_path / "properties", and
\* the directory path.parent of a tile path
BasePath == [norder |-> -1, dir |-> -1, npix |-> -1, ext |-> ""]
PropertiesPath == [norder |-> -1, dir |-> -1, npix |-> -1, ext |-> "properties"]
Parent(path) == [norder |-> path.norder, dir |-> path.dir, npix |-> -1, ext |-> ""]

\* one operation on the file system: what is done, where, and for a tile
\* its index (-1 otherwise)
FsOp(op, path, ipix) == [op |-> op, path |-> path, ipix |-> ipix]

InitConv ==
    /\ hpx_shape \in HpxShapes
    /\ tile_width \in TileWidths
    /\ file_format \in FileFormats
    /\ frame \in Frames
    /\ cpc = "mkdir"
    /\ n_tiles = 0
    /\ tile_idx = 0
    /\ tile = NoTile
    /\ dirs = {}
    /\ files = {}
    /\ fslog = <<>>

args == <<hpx_shape, tile_width, file_format, frame>>

\* lines 116-117: base_path.mkdir(exist_ok=True, parents=True)
MkBasePath ==
    /\ cpc = "mkdir"
    /\ dirs' = dirs \cup {BasePath}
    /\ fslog' = Append(fslog, FsOp("mkdir", BasePath, -1))
    /\ cpc' = "properties"
    /\ UNCHANGED <<args, n_tiles, tile_idx, tile, files>>

\* variant: range(n_tiles - 1), the last tile is left out
NTilesOffByOne(shape, tw) == shape[1] \div (tw * tw) - 1

\* n_tiles = hpx_data.shape[0] // tile_width ** 2
NTiles(shape, tw) == shape[1] \div (tw * tw)

\* lines 119-129: the properties descriptor is written, n_tiles is computed
WriteProperties ==
    /\ cpc = "properties"
    /\ files' = files \cup {[path |-> PropertiesPath, ipix |-> -1,
                             data |-> << <<file_format, frame>> >>]}
    /\ fslog' = Append(fslog, FsOp("properties", PropertiesPath, -1))
    /\ n_tiles' = NTiles(hpx_shape, tile_width)
    /\ tile_idx' = 0
    /\ cpc' = "loop"
    /\ UNCHANGED <<args, tile, dirs>>

\* variant: a tile whose extraction fails is skipped and the loop goes on
ExtractSkipping ==
    /\ cpc = "loop"
    /\ tile_idx < n_tiles
    /\ LET t == HealpixToHipsTile(hpx_shape, tile_width, tile_idx, file_format, frame)
       IN  IF t.ok
              THEN /\ tile' = t
                   /\ cpc' = "write"
                   /\ tile_idx' = tile_idx
              ELSE /\ tile' = t
                   /\ cpc' = "loop"
                   /\ tile_idx' = tile_idx + 1
    /\ UNCHANGED <<args, n_tiles, dirs, files, fslog>>

\* lines 131-138: the next tile is extracted, or the extractor raises
Extract ==
    /\ cpc = "loop"
    /\ tile_idx < n_tiles
    /\ LET t == HealpixToHipsTile(hpx_shape, tile_width, tile_idx, file_format, frame)
       IN  IF t.ok
              THEN /\ tile' = t
                   /\ cpc' = "write"
              ELSE /\ tile' = t
                   /\ cpc' = "raised"
    /\ UNCHANGED <<args, n_tiles, tile_idx, dirs, files, fslog>>

\* lines 140-143: the tile is written to its default path; range(n_tiles)
\* moves on to the next index
WriteTile ==
    /\ cpc = "write"
    /\ dirs' = dirs \cup {Parent(TileDefaultPath(tile.meta))}
    /\ files' = files \cup {[path |-> TileDefaultPath(tile.meta), ipix |-> tile.meta.ipix,
                             data |-> tile.data]}
    /\ fslog' = Append(fslog, FsOp("tile", TileDefaultPath(tile.meta), tile.meta.ipix))
    /\ tile_idx' = tile_idx + 1
    /\ cpc' = "loop"
    /\ UNCHANGED <<args, n_tiles, tile>>

\* range(n_tiles) is exhausted: healpix_to_hips returns
ConvReturn ==
    /\ cpc = "loop"
    /\ tile_idx = n_tiles
    /\ cpc' = "done"
    /\ UNCHANGED <<args, n_tiles, tile_idx, tile, dirs, files, fslog>>

NextConv ==
    \/ MkBasePath
    \/ WriteProperties
    \/ Extract
    \/ WriteTile
    \/ ConvReturn

\* the fetcher specification keeps the converter at rest, and conversely
ConvAtRest ==
    /\ hpx_shape = <<0>>
    /\ tile_width = 2
    /\ file_format = "fits"
    /\ frame = "icrs"
    /\ cpc = "rest"
    /\ n_tiles = 0
    /\ tile_idx = 0
    /\ tile = NoTile
    /\ dirs = {}
    /\ files = {}
    /\ fslog = <<>>

FetchAtRest ==
    /\ tile_indices = <<>>
    /\ progress_bar = FALSE
    /\ thread_count = 1
    /\ pyver = "3.8"
    /\ missing = {}
    /\ pc = "rest"
    /\ strategy = "none"
    /\ out = [tiles |-> NoResult, tiles_aiohttp |-> NoResult]
    /\ tile_urls = <<>>
    /\ tile_metas = <<>>
    /\ fut = <<>>
    /\ raw_responses = <<>>
    /\ exc = FALSE
    /\ bar = 0
    /\ work_queue = <<>>
    /\ threads = 0
    /\ exited = 0
    /\ shutdown = FALSE
    /\ idle_sem = 0
    /\ polling = 0
    /\ releasing = 0
    /\ sentinel = FALSE
    /\ leaving = 0
    /\ returning = 0
    /\ waiting = FALSE
    /\ finished = {}
    /\ done_order = <<>>
    /\ taken = 0

Init == InitFetch /\ ConvAtRest

Next == NextFetch /\ UNCHANGED convVars

Spec == Init /\ [][Next]_vars

\* ------------------------------------------------ the thread pool, fair
\* calls of `tiles` alone; the main thread and the workers are scheduled
\* fairly and every started fetch returns or fails (line 43: timeout=10)
NextTiles ==
    \/ Call("tiles")
    \/ Submit
    \/ AdjustThreads
    \/ AsCompleted
    \/ WorkerTake
    \/ \E k \in DOMAIN fut : WorkerRun(k)
    \/ \E k \in DOMAIN fut, ok \in BOOLEAN : WorkerFinish(k, ok)
    \/ WorkerRelease
    \/ WorkerPoll
    \/ WorkerTakeNone
    \/ WorkerPutNone
    \/ WorkerExit
    \/ YieldFinished
    \/ YieldWaited
    \/ CollectDone
    \/ TilesReturn

NextLive == NextTiles /\ UNCHANGED convVars

Fairness ==
    /\ WF_fetchVars(Submit)
    /\ WF_fetchVars(AdjustThreads)
    /\ WF_fetchVars(AsCompleted)
    /\ WF_fetchVars(WorkerTake)
    /\ WF_fetchVars(\E k \in DOMAIN fut : WorkerRun(k))
    /\ WF_fetchVars(WorkerRelease)
    /\ WF_fetchVars(WorkerPoll)
    /\ WF_fetchVars(WorkerTakeNone)
    /\ WF_fetchVars(WorkerPutNone)
    /\ WF_fetchVars(\E k \in DOMAIN fut, ok \in BOOLEAN : WorkerFinish(k, ok))
    /\ WF_fetchVars(WorkerExit)
    /\ WF_fetchVars(YieldFinished)
    /\ WF_fetchVars(YieldWaited)
    /\ WF_fetchVars(CollectDone)
    /\ WF_fetchVars(TilesReturn)

\* whether a call ends does not depend on which tiles are asked for nor on
\* what the server holds for them (every fetch returns or fails either
\* way), so the lists are those of tile 0, of every length
InitLive == Init /\ Range(tile_indices) \subseteq {0} /\ missing = {}

SpecLive == InitLive /\ [][NextLive]_vars /\ Fairness

InitC == InitConv /\ FetchAtRest

NextC == NextConv /\ UNCHANGED fetchVars

SpecConv == InitC /\ [][NextC]_vars

\* ------------------------------------------------ the extractor alone
\* healpix_to_hips_tile called directly, on every array shape, tile width,
\* file format, frame and tile index up to MaxIdx
InitExt ==
    /\ hpx_shape \in HpxShapes
    /\ tile_width \in TileWidths
    /\ file_format \in FileFormats
    /\ frame \in Frames
    /\ tile_idx \in 0..MaxIdx
    /\ cpc = "call"
    /\ n_tiles = 0
    /\ tile = NoTile
    /\ dirs = {}
    /\ files = {}
    /\ fslog = <<>>

\* lines 14-88: the call returns a tile or raises
CallExtractor ==
    /\ cpc = "call"
    /\ tile' = HealpixToHipsTile(hpx_shape, tile_width, tile_idx, file_format, frame)
    /\ cpc' = IF tile'.ok THEN "returned" ELSE "x_raised"
    /\ UNCHANGED <<args, n_tiles, tile_idx, dirs, files, fslog>>

InitX == InitExt /\ FetchAtRest

NextX == CallExtractor /\ UNCHANGED fetchVars

SpecExt == InitX /\ [][NextX]_vars

\* ======================================================== properties
\* the tiles a call is to return: for every position k the meta of
\* tile_indices[k] with the body the server sends for its URL
ExpectedTile(ipix) ==
    [meta |-> [order |-> HipsOrder, ipix |-> ipix, frame |-> AstropyFrame,
               file_format |-> TileFormat],
     raw_data |-> IF ipix \in missing THEN ErrorPage ELSE Bodies[ipix + 1]]

ExpectedTiles == [k \in DOMAIN tile_indices |-> ExpectedTile(tile_indices[k])]

\* the number of times x occurs in the sequence s
Count(s, x) == Cardinality({i \in DOMAIN s : s[i] = x})

SeqBag(s) == [x \in Range(s) |-> Count(s, x)]

PayloadsOf(tiles) == [k \in DOMAIN tiles |-> tiles[k].raw_data]

\* the last call has returned or raised
CallOver == pc = "idle" /\ strategy # "none"

InFlight == {k \in DOMAIN fut : fut[k].state = "running"}

\* the fetches that have failed: the connection failed or timed out, or the
\* server replied with a non-2xx status
FailedFetches ==
    {k \in DOMAIN fut : fut[k].state = "finished" /\ (~fut[k].ok \/ ~ServerHas(fut[k].url))}

\* C1: the list returned by `tiles` is in submission order: its k-th tile has
\* the meta of tile_indices[k] and the bytes fetched from that tile's URL.
C1_TilesSubmissionOrder ==
    out.tiles.kind = "list" => out.tiles.tiles = ExpectedTiles

\* C2: when `tiles` and `tiles_aiohttp` have both returned a list for the
\* same fetcher, the two lists hold the same set of (meta, payload) tiles.
C2_StrategiesSameTileSet ==
    (out.tiles.kind = "list" /\ out.tiles_aiohttp.kind = "list")
        => Range(out.tiles.tiles) = Range(out.tiles_aiohttp.tiles)

\* C3: a call in which a fetch failed (the connection failed or timed out,
\* or the reply had a non-2xx status) ends by raising and returns no list,
\* under both strategies, and a fetch that has completed is never run again
\* within the call.
C3_FailureFailsBatch ==
    /\ [](CallOver /\ FailedFetches # {} => out[strategy] = Raised)
    /\ [](CallOver /\ out[strategy].kind = "list" =>
            \A k \in DOMAIN fut :
                fut[k].state = "finished" /\ fut[k].ok /\ ServerHas(fut[k].url))
    /\ [][pc # "idle" =>
            /\ Len(fut') >= Len(fut)
            /\ \A k \in DOMAIN fut :
                  /\ fut[k].state = "finished" => fut'[k] = fut[k]
                  /\ fut[k].state = "running" => fut'[k].state # "pending"]_vars

\* the raw responses the other branch of the progress_bar test yields for the
\* completions of the call that is over: for `tiles` both branches iterate
\* as_completed; for `tiles_aiohttp` the other branch of as_completed is
\* gather, whose results are in the order of the tasks
OtherBranchResponses ==
    IF strategy = "tiles" THEN raw_responses
    ELSE [k \in DOMAIN fut |-> fut[k].data]

\* C4: the list a call returns with progress_bar = True is the list the same
\* call returns with progress_bar = False, for the same payloads and the
\* same completion order.
C4_ProgressBarIndependent ==
    (CallOver /\ out[strategy].kind = "list" /\ progress_bar)
        => out[strategy].tiles =
              [idx \in DOMAIN OtherBranchResponses |->
                  [meta |-> tile_metas[idx], raw_data |-> OtherBranchResponses[idx]]]

\* C5: the list returned by `tiles_aiohttp` is in submission order, also when
\* the fetcher has progress_bar = True.
C5_AiohttpSubmissionOrder ==
    out.tiles_aiohttp.kind = "list" => out.tiles_aiohttp.tiles = ExpectedTiles

\* C6: a returned list has one tile per requested index, and the multiset of
\* its payloads is the multiset of the bodies the server holds for the
\* requested URLs, under both strategies.
C6_PayloadMultiset ==
    \A s \in {"tiles", "tiles_aiohttp"} :
        out[s].kind = "list" =>
            /\ Len(out[s].tiles) = Len(tile_indices)
            /\ SeqBag(PayloadsOf(out[s].tiles)) = SeqBag(PayloadsOf(ExpectedTiles))

C6_Witness ==
    /\ out.tiles.kind = "list"
    /\ out.tiles_aiohttp.kind = "list"
    /\ Len(out.tiles.tiles) >= 2
    /\ PayloadsOf(out.tiles.tiles) # PayloadsOf(out.tiles_aiohttp.tiles)
    /\ \E i \in DOMAIN tile_indices : tile_indices[i] # i - 1

\* the fetches a worker has taken off the queue and not yet completed
WithWorker == Held(fut, work_queue) \cup InFlight

\* C7: under the thread-pool strategy at most thread_count fetches are in
\* flight: at most thread_count workers are started, and every fetch that
\* has left the queue and is not completed is with a worker of its own. All
\* fetches are submitted before the first result is collected, and a fetch
\* still in the queue has not been started.
C7_BoundedInFlight ==
    strategy = "tiles" =>
        /\ Cardinality(InFlight) <= thread_count
        /\ Cardinality(WithWorker) <= threads - exited
        /\ threads <= thread_count
        /\ \A k \in Range(work_queue) : fut[k].state = "pending"
        /\ pc \in {"collect", "shutdown"} => Len(fut) = Len(tile_indices)

C7_Witness ==
    /\ strategy = "tiles"
    /\ pc = "collect"
    /\ Len(tile_indices) > thread_count
    /\ Cardinality(InFlight) = thread_count
    /\ work_queue # <<>>

\* C8: when `tiles` has returned or raised, no fetch of the call is in flight
\* or queued and every worker thread has exited.
C8_PoolScoped ==
    (CallOver /\ strategy = "tiles") =>
        /\ work_queue = <<>>
        /\ \A k \in DOMAIN fut : fut[k].state = "finished"
        /\ Len(fut) = Len(tile_indices)
        /\ exited = threads

C8_Witness ==
    /\ CallOver
    /\ strategy = "tiles"
    /\ out.tiles = Raised
    /\ Len(fut) >= 2
    /\ threads >= 2
    /\ ~fut[1].ok
    /\ fut[2].ok

\* the futures that have completed with a result
Completed == {k \in DOMAIN fut : fut[k].state = "finished" /\ fut[k].ok}

\* C9 as stated: raw_responses receives exactly one append per completed
\* future: when the call of `tiles` is over it has one element for every
\* future that completed with a result.
C9_OneAppendPerCompleted ==
    (CallOver /\ strategy = "tiles") =>
        Len(raw_responses) = Cardinality(Completed)

\* C9: raw_responses is appended to by the calling thread only, one element
\* per step, each completed future at most once and only futures that
\* completed with a result; when a list is returned every future has been
\* appended once, and the tiles are built from raw_responses when no append
\* can follow.
C9_SingleAppender ==
    /\ [](strategy = "tiles" =>
            /\ finished \cap {done_order[i] : i \in (taken + 1)..Len(done_order)} = {}
            /\ \A i, j \in DOMAIN done_order : done_order[i] = done_order[j] => i = j
            /\ Len(raw_responses) <= Cardinality(Completed))
    /\ [][(strategy = "tiles" /\ pc # "idle") =>
            /\ raw_responses' # raw_responses =>
                  /\ pc = "collect"
                  /\ threads' = threads /\ exited' = exited
                  /\ fut' = fut /\ work_queue' = work_queue
                  /\ \E k \in DOMAIN fut :
                        /\ k \in Completed
                        /\ raw_responses' = Append(raw_responses, fut[k].data)
                        /\ \/ k \in finished /\ finished' = finished \ {k} /\ taken' = taken
                           \/ /\ finished = {} /\ finished' = {}
                              /\ taken < Len(done_order) /\ done_order[taken + 1] = k
                              /\ taken' = taken + 1
            /\ out' # out =>
                  /\ pc = "shutdown"
                  /\ raw_responses' = raw_responses
                  /\ exited = threads /\ WithWorker = {}
                  /\ out'.tiles.kind = "list" => Len(raw_responses) = Len(fut)]_vars

C9_Witness ==
    /\ CallOver
    /\ strategy = "tiles"
    /\ out.tiles.kind = "list"
    /\ Len(raw_responses) >= 2
    /\ threads >= 2
    /\ taken >= 1

\* C10: the converter creates base_path, then writes the descriptor once,
\* then extracts and writes the tiles 0, 1, ... in increasing order, each
\* once; a successful run has written floor(npix / tile_width^2) tiles.
C10_SideEffectOrder ==
    /\ \A i \in DOMAIN fslog :
          /\ i = 1 => fslog[i].op = "mkdir"
          /\ i = 2 => fslog[i].op = "properties"
          /\ i >= 3 => fslog[i].op = "tile" /\ fslog[i].ipix = i - 3
    /\ Len(fslog) <= 2 + hpx_shape[1] \div (tile_width * tile_width)
    /\ cpc = "write" => tile.ok /\ tile.meta.ipix = Len(fslog) - 2
    /\ cpc = "done" => Len(fslog) = 2 + hpx_shape[1] \div (tile_width * tile_width)
    /\ cpc \in {"loop", "write", "raised", "done"} => Len(fslog) >= 2

C10_Witness ==
    /\ cpc = "done"
    /\ n_tiles = 12
    /\ Len(fslog) = 14
    /\ fslog[14].ipix = 11

\* the properties descriptor is on disk
PropertiesOnDisk == \E f \in files : f.path = PropertiesPath

\* the indices of the tiles on disk
TilesOnDisk == {f.ipix : f \in {g \in files : g.path # PropertiesPath}}

\* C11: when the extractor fails for tile j, healpix_to_hips raises at once:
\* the converter is then in its raised state with tile_idx = j, the tiles on
\* disk are exactly those of index < j together with the properties
\* descriptor, and from then on no step extracts, writes or removes anything.
C11_FailurePropagates ==
    /\ [](tile.error # "" =>
            /\ cpc = "raised"
            /\ PropertiesOnDisk
            /\ TilesOnDisk = 0..(tile_idx - 1)
            /\ Len(fslog) = 2 + tile_idx)
    /\ [][tile.error # "" => UNCHANGED <<cpc, tile, tile_idx, dirs, files, fslog>>]_vars

C11_Witness ==
    /\ cpc = "raised"
    /\ tile.error # ""
    /\ n_tiles > 1
    /\ PropertiesOnDisk
    /\ BasePath \in dirs

\* the shape and format errors of the extractor
ShapeFormatErrors ==
    {"ValueError: Invalid hpx_data.ndim", "ValueError: Invalid hpx_data.shape",
     "ValueError: Invalid file_format"}

\* the input of the call is one the validation is to reject
RejectedInput ==
    \/ file_format = "fits" /\ Len(hpx_shape) # 1
    \/ file_format = "jpg" /\ ~(Len(hpx_shape) = 2 /\ hpx_shape[2] = 3)
    \/ file_format = "png" /\ ~(Len(hpx_shape) = 2 /\ hpx_shape[2] = 4)
    \/ file_format \notin {"fits", "jpg", "png"}

\* C12: a call of the extractor with fits and an array not of rank 1, jpg and
\* an array not of shape (npix, 3), png and an array not of shape (npix, 4),
\* or any other file format raises a shape or format error and returns no
\* tile; a call with any other input raises no shape or format error.
C12_Validation ==
    cpc \in {"returned", "x_raised"} =>
        IF RejectedInput
           THEN /\ cpc = "x_raised"
                /\ ~tile.ok
                /\ tile.data = <<>>
                /\ tile.error \in ShapeFormatErrors
                /\ (file_format = "fits" => tile.error = "ValueError: Invalid hpx_data.ndim")
                /\ (file_format \in {"jpg", "png"} =>
                       tile.error = "ValueError: Invalid hpx_data.shape")
           ELSE tile.error \notin ShapeFormatErrors

C12_Witness ==
    /\ cpc = "x_raised"
    /\ file_format = "jpg"
    /\ hpx_shape = <<48, 4>>
    /\ tile.error = "ValueError: Invalid hpx_data.shape"

\* the pixel indices tile file f gathers
GatherSet(f) == Cells(f.data)

\* the tile files on disk
TileFiles == {f \in files : f.path # PropertiesPath}

\* C13: the tile written for index i gathers exactly the tile_width^2 indices
\* i*tile_width^2 .. (i+1)*tile_width^2 - 1, each in one cell, none beyond
\* the array; when the converter returns, the gather sets of its n_tiles
\* tiles are pairwise disjoint and cover 0 .. n_tiles*tile_width^2 - 1.
C13_PixelPartition ==
    /\ \A f \in TileFiles :
          /\ Len(f.data) = tile_width
          /\ \A r \in DOMAIN f.data : Len(f.data[r]) = tile_width
          /\ GatherSet(f) = (f.ipix * tile_width * tile_width)
                               ..((f.ipix + 1) * tile_width * tile_width - 1)
          /\ \A i \in GatherSet(f) : i < hpx_shape[1]
    /\ \A f, g \in TileFiles : f.ipix # g.ipix => GatherSet(f) \cap GatherSet(g) = {}
    /\ cpc = "done" =>
          /\ {f.ipix : f \in TileFiles} = 0..(n_tiles - 1)
          /\ UNION {GatherSet(f) : f \in TileFiles}
                = 0..(n_tiles * tile_width * tile_width - 1)

C13_Witness ==
    /\ cpc = "done"
    /\ hpx_shape = <<48>>
    /\ tile_width = 2
    /\ Cardinality(TileFiles) = 12
    /\ \E f \in TileFiles : f.ipix = 11 /\ GatherSet(f) = 44..47

\* npix = 12 * 4^k * tile_width^2 for some k >= 0
FullSkyNpix(npix, tw) == \E k \in 0..MaxK : npix = 12 * Pow2(k) * Pow2(k) * tw * tw

\* C14 as stated: for npix = 12 * 4^k * tile_width^2 the order of the tile
\* meta is log2(sqrt(npix / tile_width^2)), here even rounded down to an
\* integer.
C14_OrderAsStated ==
    (cpc = "returned" /\ FullSkyNpix(hpx_shape[1], tile_width)) =>
        tile.meta.order = ILog2(ISqrt(hpx_shape[1] \div (tile_width * tile_width)))

\* C14, amended: for npix = 12 * 4^k * tile_width^2 the order of the tile
\* meta is log2(sqrt(npix / (12 * tile_width^2))) = k, that is
\* 12 * 4^order * tile_width^2 = npix.
C14_OrderDerivation ==
    (cpc = "returned" /\ FullSkyNpix(hpx_shape[1], tile_width)) =>
        12 * Pow2(tile.meta.order) * Pow2(tile.meta.order) * tile_width * tile_width
            = hpx_shape[1]

C14_Witness ==
    /\ cpc = "returned"
    /\ hpx_shape = <<768>>
    /\ tile_width = 2
    /\ tile.meta.order = 2

\* the with block of `tiles` is being left because a fetch has failed
Unwinding == strategy = "tiles" /\ pc = "shutdown" /\ exc

\* C15: after a fetch has failed, `tiles` cancels nothing: a queued fetch
\* leaves the queue only by being taken by a worker, which then starts it
\* (a pending fetch stays pending or becomes running), a running fetch stays
\* running until it returns or fails by itself, the failure surfaces only
\* once every fetch of the batch is finished, and the caller gets none of
\* their results.
C15_NoCancellation ==
    /\ [][Unwinding =>
            /\ work_queue' # work_queue =>
                  /\ work_queue' = Tail(work_queue)
                  /\ fut'[Head(work_queue)] = fut[Head(work_queue)]
                  /\ Head(work_queue) \in Held(fut', work_queue')
            /\ \A k \in DOMAIN fut :
                  /\ fut[k].state = "pending" => fut'[k].state \in {"pending", "running"}
                  /\ fut[k].state = "running" => fut'[k].state \in {"running", "finished"}
            /\ pc' = "idle" =>
                  /\ work_queue = <<>>
                  /\ \A k \in DOMAIN fut : fut[k].state = "finished"
                  /\ out'.tiles = Raised]_vars
    /\ [](Unwinding => out.tiles.tiles = <<>> /\ Len(fut) = Len(tile_indices))

C15_Witness ==
    /\ Unwinding
    /\ work_queue # <<>>
    /\ FailedFetches # {}

\* a call of `tiles` is under way
TilesCalled == strategy = "tiles" /\ pc # "idle"

\* the call of `tiles` has returned a list or raised
TilesOver == pc = "idle" /\ out.tiles.kind \in {"list", "raised"}

\* C16: with fair scheduling of the main thread and the workers, and every
\* started fetch returning or failing, every call of `tiles` eventually
\* returns a list or raises, whatever the number of tile indices and
\* thread_count >= 1.
C16_Termination == TilesCalled ~> TilesOver

C16_Witness ==
    /\ TilesOver
    /\ strategy = "tiles"
    /\ Len(tile_indices) > thread_count
    /\ Len(fut) = Len(tile_indices)

\* C17: `tiles_aiohttp` schedules one task per tile index before it awaits
\* any, and nothing caps the tasks in flight: while it awaits, the next
\* scheduled task can always start, whatever thread_count and the number of
\* tasks already in flight.
C17_NoConcurrencyCap ==
    strategy = "tiles_aiohttp" =>
        /\ pc = "schedule" => \A k \in DOMAIN fut : fut[k].state = "pending"
        /\ pc = "await" =>
              /\ Len(fut) = Len(tile_indices)
              /\ \A k \in DOMAIN fut :
                    (fut[k].state = "pending"
                       /\ \A j \in 1..(k - 1) : fut[j].state # "pending")
                    => ENABLED TaskStart(k)

\* all fetches of the call are in flight at once, more than thread_count
C17_Witness ==
    /\ strategy = "tiles_aiohttp"
    /\ pc = "await"
    /\ Cardinality(InFlight) = Len(tile_indices)
    /\ Len(tile_indices) > thread_count

\* C18: under both strategies a returned list has one tile per tile index
\* and its k-th meta is that of tile_indices[k]: ipix = tile_indices[k],
\* order = hips_order, file_format = tile_format, in whatever order the
\* fetches completed.
C18_MetasSubmissionOrder ==
    \A s \in {"tiles", "tiles_aiohttp"} :
        out[s].kind = "list" =>
            /\ Len(out[s].tiles) = Len(tile_indices)
            /\ \A k \in DOMAIN tile_indices :
                  /\ out[s].tiles[k].meta.ipix = tile_indices[k]
                  /\ out[s].tiles[k].meta.order = HipsOrder
                  /\ out[s].tiles[k].meta.file_format = TileFormat

\* a list whose metas are in submission order while its payloads are not
C18_Witness ==
    /\ out.tiles.kind = "list"
    /\ out.tiles_aiohttp.kind = "list"
    /\ tile_indices = <<0, 1>>
    /\ out.tiles.tiles # ExpectedTiles
    /\ out.tiles_aiohttp.tiles # ExpectedTiles

\* C19: when healpix_to_hips fails with a shape or format error of the
\* extractor, it fails at tile 0: base_path exists, the properties
\* descriptor is on disk, and no tile has been written.
C19_ValidationFailsAtTileZero ==
    (cpc = "raised" /\ tile.error \in ShapeFormatErrors) =>
        /\ tile_idx = 0
        /\ BasePath \in dirs
        /\ PropertiesOnDisk
        /\ TileFiles = {}
        /\ fslog = <<FsOp("mkdir", BasePath, -1), FsOp("properties", PropertiesPath, -1)>>

C19_Witness ==
    /\ cpc = "raised"
    /\ tile.error = "ValueError: Invalid file_format"
    /\ n_tiles = 12
    /\ files # {}
    /\ TileFiles = {}
====
